---- MODULE Spec2Model ----
(***************************************************************************)
(* A model of idna_adapter (src/src/lib.rs): the property masks and their  *)
(* named groups, the per-code-point queries, and the two lazy pipelines    *)
(* map_normalize / normalize_validate.                                     *)
(*                                                                         *)
(* The crate is a thin layer over four other crates.  What lib.rs itself   *)
(* computes (the shift, the OR of the named groups, the AND of intersects, *)
(* the comparison with 9, the order of the two pipeline stages and the     *)
(* flag each passes) is modelled from lib.rs.  What the other crates       *)
(* compute (the enumerations' declaration order, the Unicode data of a     *)
(* code point, the UTS 46 mapper and the NFC iterator) is modelled on a    *)
(* sample of code points and is marked as such where it is defined.        *)
(***************************************************************************)
EXTENDS Integers, Sequences, FiniteSets, TLC

VARIABLES
    kind,       \* which value the consumer holds: "jt", "bc", or "cp" (a code point)
    c,          \* the code point of the current query (0: none)
    selfSet,    \* the variants OR-ed into selfMask
    selfMask,   \* the u32 of the receiver mask
    otherSet,   \* the variants OR-ed into otherMask
    otherMask,  \* the u32 of the argument mask
    otherName,  \* the named constant the argument mask is ("": not a named one)
    res,        \* the result of the last query: [op |-> "none"] at first
    prod        \* the lazy producers in flight, a sequence of producer records

vars == <<kind, c, selfSet, selfMask, otherSet, otherMask, otherName, res, prod>>

(***************************************************************************)
(* Bounds of the model.                                                    *)
(***************************************************************************)
\* the largest number of variants OR-ed into the receiver mask
MaxGroup == 2

\* the longest input sequence handed to a pipeline
MaxLen == 3

\* the longest input sequence of each of two pipelines run side by side
MaxPairLen == 2

(***************************************************************************)
(* u32 arithmetic.  Every mask of the model is below 2^23, so the values   *)
(* are plain integers; the operators are the bitwise ones.                 *)
(***************************************************************************)
\* the width of the mask integer (1u32)
U32Bits == 32

RECURSIVE BitAnd(_, _)
BitAnd(a, b) ==
    IF a = 0 \/ b = 0 THEN 0
    ELSE (a % 2) * (b % 2) + 2 * BitAnd(a \div 2, b \div 2)

RECURSIVE BitOr(_, _)
BitOr(a, b) ==
    IF a = 0 THEN b
    ELSE IF b = 0 THEN a
    ELSE (IF a % 2 = 1 \/ b % 2 = 1 THEN 1 ELSE 0) + 2 * BitOr(a \div 2, b \div 2)

\* 1u32 << k; the shift amount of a u32 is taken modulo its width
Shl1(k) == 2 ^ (k % U32Bits)

RECURSIVE Shr(_, _)
Shr(m, k) == IF k = 0 THEN m ELSE Shr(m \div 2, k - 1)

\* bit k of m
Bit(m, k) == Shr(m, k) % 2 = 1

Range(s) == {s[i] : i \in 1..Len(s)}

(***************************************************************************)
(* The two enumerations, in declaration order (unicode_joining_type and    *)
(* unicode_bidi); `v as u32` is the zero-based position.                   *)
(***************************************************************************)
JoiningTypeVariants ==
    <<"DualJoining", "JoinCausing", "LeftJoining", "NonJoining", "RightJoining",
      "Transparent">>

BidiClassVariants ==
    <<"AL", "AN", "B", "BN", "CS", "EN", "ES", "ET", "FSI", "L", "LRE", "LRI",
      "LRO", "NSM", "ON", "PDF", "PDI", "R", "RLE", "RLI", "RLO", "S", "WS">>

\* v as u32
AsU32(variants, v) == (CHOOSE i \in 1..Len(variants) : variants[i] = v) - 1

\* a mutant: the shift forgotten, the ordinal itself used as the mask
joining_type_to_mask_noshift(jt) == AsU32(JoiningTypeVariants, jt)

joining_type_to_mask(jt) == Shl1(AsU32(JoiningTypeVariants, jt))

\* a mutant: the shift forgotten, the ordinal itself used as the mask
bidi_class_to_mask_noshift(bc) == AsU32(BidiClassVariants, bc)

\* a mutant: the shift amount taken in a 4-bit field, so ordinals 16.. wrap
bidi_class_to_mask_wrap(bc) == Shl1(AsU32(BidiClassVariants, bc) % 16)

bidi_class_to_mask(bc) == Shl1(AsU32(BidiClassVariants, bc))

\* JoiningType::to_mask, BidiClass::to_mask
to_mask(k, v) == IF k = "jt" THEN joining_type_to_mask(v) ELSE bidi_class_to_mask(v)

Variants(k) ==
    IF k = "jt" THEN Range(JoiningTypeVariants) ELSE Range(BidiClassVariants)

\* m1 | m2 | ... of the masks of the variants listed, left to right
RECURSIVE OrOfMasks(_, _)
OrOfMasks(k, vs) ==
    IF vs = <<>> THEN 0
    ELSE BitOr(OrOfMasks(k, SubSeq(vs, 1, Len(vs) - 1)), to_mask(k, vs[Len(vs)]))

(***************************************************************************)
(* The named groups: the variants each constant ORs, as lib.rs lists them. *)
(***************************************************************************)
\* a mutant: EN written for AN in RTL_MASK, L left out of FIRST_BC_MASK
NamedVariants_slip ==
    [ LEFT_OR_DUAL_JOINING_MASK  |-> <<"LeftJoining", "DualJoining">>,
      RIGHT_OR_DUAL_JOINING_MASK |-> <<"RightJoining", "DualJoining">>,
      RTL_MASK        |-> <<"R", "AL", "EN">>,
      FIRST_BC_MASK   |-> <<"R", "AL">>,
      LAST_LTR_MASK   |-> <<"L", "EN">>,
      LAST_RTL_MASK   |-> <<"R", "AL", "EN", "AN">>,
      MIDDLE_LTR_MASK |-> <<"L", "EN", "ES", "CS", "ET", "ON", "BN", "NSM">>,
      MIDDLE_RTL_MASK |-> <<"R", "AL", "AN", "EN", "ES", "CS", "ET", "ON", "BN", "NSM">> ]

NamedVariants ==
    [ LEFT_OR_DUAL_JOINING_MASK  |-> <<"LeftJoining", "DualJoining">>,
      RIGHT_OR_DUAL_JOINING_MASK |-> <<"RightJoining", "DualJoining">>,
      RTL_MASK        |-> <<"R", "AL", "AN">>,
      FIRST_BC_MASK   |-> <<"L", "R", "AL">>,
      LAST_LTR_MASK   |-> <<"L", "EN">>,
      LAST_RTL_MASK   |-> <<"R", "AL", "EN", "AN">>,
      MIDDLE_LTR_MASK |-> <<"L", "EN", "ES", "CS", "ET", "ON", "BN", "NSM">>,
      MIDDLE_RTL_MASK |-> <<"R", "AL", "AN", "EN", "ES", "CS", "ET", "ON", "BN", "NSM">> ]

NamedKind(name) ==
    IF name \in {"LEFT_OR_DUAL_JOINING_MASK", "RIGHT_OR_DUAL_JOINING_MASK"}
    THEN "jt" ELSE "bc"

NamedMask(name) == OrOfMasks(NamedKind(name), NamedVariants[name])

LEFT_OR_DUAL_JOINING_MASK == NamedMask("LEFT_OR_DUAL_JOINING_MASK")
RIGHT_OR_DUAL_JOINING_MASK == NamedMask("RIGHT_OR_DUAL_JOINING_MASK")
RTL_MASK == NamedMask("RTL_MASK")
FIRST_BC_MASK == NamedMask("FIRST_BC_MASK")
LAST_LTR_MASK == NamedMask("LAST_LTR_MASK")
LAST_RTL_MASK == NamedMask("LAST_RTL_MASK")
MIDDLE_LTR_MASK == NamedMask("MIDDLE_LTR_MASK")
MIDDLE_RTL_MASK == NamedMask("MIDDLE_RTL_MASK")

\* a mutant: the AND mistaken for a comparison of the two words
intersects_eq(a, b) == a = b

\* JoiningTypeMask::intersects, BidiClassMask::intersects
intersects(a, b) == BitAnd(a, b) # 0

(***************************************************************************)
(* The Unicode data of the code points the queries are made on: the        *)
(* Canonical_Combining_Class, whether the General_Category is a Mark, the  *)
(* Bidi_Class and the Joining_Type (unicode_normalization, unicode_bidi,   *)
(* unicode_joining_type).  A sample of the code point space.               *)
(***************************************************************************)
UnicodeData ==
    <<[cp |-> 97,    ccc |-> 0,   mark |-> FALSE, bc |-> "L",   jt |-> "NonJoining"],    \* a
      [cp |-> 102,   ccc |-> 0,   mark |-> FALSE, bc |-> "L",   jt |-> "NonJoining"],    \* f
      [cp |-> 65,    ccc |-> 0,   mark |-> FALSE, bc |-> "L",   jt |-> "NonJoining"],    \* A
      [cp |-> 57,    ccc |-> 0,   mark |-> FALSE, bc |-> "EN",  jt |-> "NonJoining"],    \* 9
      [cp |-> 173,   ccc |-> 0,   mark |-> FALSE, bc |-> "BN",  jt |-> "Transparent"],   \* U+00AD
      [cp |-> 225,   ccc |-> 0,   mark |-> FALSE, bc |-> "L",   jt |-> "NonJoining"],    \* U+00E1
      [cp |-> 769,   ccc |-> 230, mark |-> TRUE,  bc |-> "NSM", jt |-> "Transparent"],   \* U+0301
      [cp |-> 803,   ccc |-> 220, mark |-> TRUE,  bc |-> "NSM", jt |-> "Transparent"],   \* U+0323
      [cp |-> 1456,  ccc |-> 10,  mark |-> TRUE,  bc |-> "NSM", jt |-> "Transparent"],   \* U+05B0
      [cp |-> 1488,  ccc |-> 0,   mark |-> FALSE, bc |-> "R",   jt |-> "NonJoining"],    \* U+05D0
      [cp |-> 1575,  ccc |-> 0,   mark |-> FALSE, bc |-> "AL",  jt |-> "RightJoining"],  \* U+0627 Alef
      [cp |-> 1576,  ccc |-> 0,   mark |-> FALSE, bc |-> "AL",  jt |-> "DualJoining"],   \* U+0628
      [cp |-> 1632,  ccc |-> 0,   mark |-> FALSE, bc |-> "AN",  jt |-> "NonJoining"],    \* U+0660
      [cp |-> 2307,  ccc |-> 0,   mark |-> TRUE,  bc |-> "L",   jt |-> "NonJoining"],    \* U+0903
      [cp |-> 2364,  ccc |-> 7,   mark |-> TRUE,  bc |-> "NSM", jt |-> "Transparent"],   \* U+093C
      [cp |-> 2381,  ccc |-> 9,   mark |-> TRUE,  bc |-> "NSM", jt |-> "Transparent"],   \* U+094D Virama
      [cp |-> 7841,  ccc |-> 0,   mark |-> FALSE, bc |-> "L",   jt |-> "NonJoining"],    \* U+1EA1
      [cp |-> 8205,  ccc |-> 0,   mark |-> FALSE, bc |-> "BN",  jt |-> "JoinCausing"],   \* U+200D
      [cp |-> 43122, ccc |-> 0,   mark |-> FALSE, bc |-> "L",   jt |-> "LeftJoining"],   \* U+A872
      [cp |-> 64256, ccc |-> 0,   mark |-> FALSE, bc |-> "L",   jt |-> "NonJoining"],    \* U+FB00
      [cp |-> 65313, ccc |-> 0,   mark |-> FALSE, bc |-> "L",   jt |-> "NonJoining"],    \* U+FF21
      [cp |-> 65533, ccc |-> 0,   mark |-> FALSE, bc |-> "ON",  jt |-> "NonJoining"]>>   \* U+FFFD

SampleChars == {UnicodeData[i].cp : i \in 1..Len(UnicodeData)}

DataOf(ch) == UnicodeData[CHOOSE i \in 1..Len(UnicodeData) : UnicodeData[i].cp = ch]

\* unicode_normalization::char::canonical_combining_class (None, the end of
\* an iterator, is no code point and has no class)
canonical_combining_class(ch) == IF ch \in SampleChars THEN DataOf(ch).ccc ELSE 0

\* unicode_normalization::char::is_combining_mark
is_combining_mark(ch) == DataOf(ch).mark

\* a mutant: every class from Virama up taken for Virama
is_virama_ge(ch) == canonical_combining_class(ch) >= 9

\* Adapter::is_virama
is_virama(ch) == canonical_combining_class(ch) = 9

\* Adapter::is_mark
is_mark(ch) == is_combining_mark(ch)

\* Adapter::bidi_class
bidi_class(ch) == DataOf(ch).bc

\* Adapter::joining_type
joining_type(ch) == DataOf(ch).jt

NoResult == [op |-> "none"]

(***************************************************************************)
(* The consumer's use of the masks.  A consumer holds a receiver mask and  *)
(* an argument mask of one property and asks whether they intersect; a     *)
(* mask is the mask of one value (to_mask), a named constant, or an OR of  *)
(* single masks (what the constants are built by).                         *)
(***************************************************************************)
InitMask ==
    /\ \/ kind \in {"jt", "bc"} /\ c = 0
       \/ kind = "cp" /\ c \in SampleChars
    /\ selfSet = {} /\ selfMask = 0
    /\ otherSet = {} /\ otherMask = 0 /\ otherName = ""
    /\ res = NoResult
    /\ prod = <<>>

\* v.to_mask() as the receiver
ToMaskSelf(v) ==
    /\ kind \in {"jt", "bc"} /\ selfSet = {}
    /\ selfSet' = {v}
    /\ selfMask' = to_mask(kind, v)
    /\ UNCHANGED <<kind, c, otherSet, otherMask, otherName, res, prod>>

\* receiver | v's mask: one more variant OR-ed into a group
OrSelf(v) ==
    /\ c = 0 /\ selfSet # {} /\ v \notin selfSet
    /\ Cardinality(selfSet) < MaxGroup
    /\ res = NoResult
    /\ selfSet' = selfSet \cup {v}
    /\ selfMask' = BitOr(selfMask, to_mask(kind, v))
    /\ UNCHANGED <<kind, c, otherSet, otherMask, otherName, res, prod>>

\* v.to_mask() as the argument
ToMaskOther(v) ==
    /\ kind \in {"jt", "bc"} /\ otherSet = {}
    /\ otherSet' = {v}
    /\ otherMask' = to_mask(kind, v)
    /\ UNCHANGED <<kind, c, selfSet, selfMask, otherName, res, prod>>

\* a named constant as the argument
NamedOther(name) ==
    /\ kind = NamedKind(name) /\ otherSet = {}
    /\ otherSet' = Range(NamedVariants[name])
    /\ otherMask' = NamedMask(name)
    /\ otherName' = name
    /\ UNCHANGED <<kind, c, selfSet, selfMask, res, prod>>

\* self.intersects(other), and other.intersects(self); the masks are Copy
\* and passed by value
Intersects ==
    /\ selfSet # {} /\ otherSet # {} /\ res = NoResult
    /\ res' = [op |-> "intersects",
               val |-> intersects(selfMask, otherMask),
               rev |-> intersects(otherMask, selfMask),
               self |-> selfMask, other |-> otherMask]
    /\ UNCHANGED <<kind, c, selfSet, selfMask, otherSet, otherMask, otherName, prod>>

\* adapter.is_virama(c)
IsVirama ==
    /\ kind = "cp" /\ res = NoResult
    /\ res' = [op |-> "is_virama", val |-> is_virama(c)]
    /\ UNCHANGED <<kind, c, selfSet, selfMask, otherSet, otherMask, otherName, prod>>

\* adapter.is_mark(c)
IsMark ==
    /\ kind = "cp" /\ res = NoResult
    /\ res' = [op |-> "is_mark", val |-> is_mark(c)]
    /\ UNCHANGED <<kind, c, selfSet, selfMask, otherSet, otherMask, otherName, prod>>

\* adapter.bidi_class(c).to_mask() as the receiver
BidiClassOf ==
    /\ kind = "cp" /\ res = NoResult
    /\ kind' = "bc"
    /\ selfSet' = {bidi_class(c)}
    /\ selfMask' = to_mask("bc", bidi_class(c))
    /\ UNCHANGED <<c, otherSet, otherMask, otherName, res, prod>>

\* adapter.joining_type(c).to_mask() as the receiver
JoiningTypeOf ==
    /\ kind = "cp" /\ res = NoResult
    /\ kind' = "jt"
    /\ selfSet' = {joining_type(c)}
    /\ selfMask' = to_mask("jt", joining_type(c))
    /\ UNCHANGED <<c, otherSet, otherMask, otherName, res, prod>>

NextMask ==
    \/ \E v \in Variants(kind) : ToMaskSelf(v)
    \/ \E v \in Variants(kind) : OrSelf(v)
    \/ \E v \in Variants(kind) : ToMaskOther(v)
    \/ \E name \in DOMAIN NamedVariants : NamedOther(name)
    \/ Intersects
    \/ IsVirama
    \/ IsMark
    \/ BidiClassOf
    \/ JoiningTypeOf

SpecMask == InitMask /\ [][NextMask]_vars

(***************************************************************************)
(* Properties of the masks.                                                *)
(***************************************************************************)
\* the variants the specification's table lists for each named group
TableOfGroups ==
    [ LEFT_OR_DUAL_JOINING_MASK  |-> {"LeftJoining", "DualJoining"},
      RIGHT_OR_DUAL_JOINING_MASK |-> {"RightJoining", "DualJoining"},
      RTL_MASK        |-> {"R", "AL", "AN"},
      FIRST_BC_MASK   |-> {"L", "R", "AL"},
      LAST_LTR_MASK   |-> {"L", "EN"},
      LAST_RTL_MASK   |-> {"R", "AL", "EN", "AN"},
      MIDDLE_LTR_MASK |-> {"L", "EN", "ES", "CS", "ET", "ON", "BN", "NSM"},
      MIDDLE_RTL_MASK |-> {"R", "AL", "AN", "EN", "ES", "CS", "ET", "ON", "BN", "NSM"} ]

BitPositions == 0..(U32Bits - 1)

Asked == res.op = "intersects"

C2_IntersectsIsSharedBit ==
    Asked =>
        /\ res.val = (\E k \in BitPositions : Bit(selfMask, k) /\ Bit(otherMask, k))
        /\ res.rev = res.val
        /\ selfMask = res.self /\ otherMask = res.other

\* two masks of several bits each that share none, found disjoint
C2_Witness ==
    /\ Asked /\ res.val = FALSE
    /\ Cardinality(selfSet) > 1 /\ Cardinality(otherSet) > 1

\* C3: the OR of the masks of a set A of variants intersects the OR of the
\* masks of a set B exactly when A and B share a variant.
C3_IntersectsIsSetOverlap ==
    Asked => res.val = (selfSet \cap otherSet # {})

\* the mask of a code point's Bidi Class was tested against itself
C3_Witness ==
    /\ Asked /\ c # 0 /\ kind = "bc" /\ otherSet = selfSet /\ res.val = TRUE

\* C3 (special case): Right-joining alone was tested against
\* LEFT_OR_DUAL_JOINING_MASK and found disjoint
C3_WitnessDisjoint ==
    /\ Asked /\ selfSet = {"RightJoining"}
    /\ otherName = "LEFT_OR_DUAL_JOINING_MASK" /\ res.val = FALSE

\* C10: the mask of one variant is 1 << ordinal with the ordinal below the
\* width of the word: it has exactly one bit set, the bit of the ordinal,
\* and the masks of two distinct variants differ.
C10_SingleMaskIsOneBit ==
    /\ \A v \in selfSet :
          Cardinality(selfSet) = 1 =>
             /\ AsU32(IF kind = "jt" THEN JoiningTypeVariants ELSE BidiClassVariants, v)
                    \in BitPositions
             /\ selfMask # 0
             /\ {k \in BitPositions : Bit(selfMask, k)}
                    = {AsU32(IF kind = "jt" THEN JoiningTypeVariants
                             ELSE BidiClassVariants, v)}
    /\ (Cardinality(selfSet) = 1 /\ Cardinality(otherSet) = 1 /\ otherName = "") =>
          ((selfMask = otherMask) <=> (selfSet = otherSet))

\* the masks of the last variant of Bidi Class and of another variant are held
C10_Witness ==
    /\ selfSet = {"WS"} /\ Cardinality(otherSet) = 1 /\ otherSet # selfSet
    /\ otherName = "" /\ selfMask = 2 ^ 22

\* C9: is_virama answers, for every code point, TRUE or FALSE, and TRUE
\* exactly when the Canonical_Combining_Class of the code point is 9: of the
\* code points asked, for U+094D (Devanagari Virama) alone.
C9_ViramaIsClassNine ==
    res.op = "is_virama" =>
        /\ res.val \in BOOLEAN
        /\ res.val = (DataOf(c).ccc = 9)
        /\ res.val = (c = 2381)

\* is_virama was asked of a combining mark of class 10 and answered FALSE
C9_Witness ==
    res.op = "is_virama" /\ DataOf(c).ccc = 10 /\ res.val = FALSE

(***************************************************************************)
(* The pipelines.  An iterator is a source (a cursor over the caller's     *)
(* sequence) under a stack of adaptors; pulling the top adaptor pulls the  *)
(* one below it as often as it needs.                                      *)
(*                                                                         *)
(* The adaptors are those of idna_mapping (Mapper) and                     *)
(* unicode_normalization (Decompositions, Recompositions), on the code     *)
(* points of MappingTable, with the Unicode data of UnicodeData.           *)
(***************************************************************************)
None == -1

\* the UTS 46 status of a code point and what it is mapped to
MappingTable ==
    <<[cp |-> 97,    status |-> "valid",      to |-> <<>>],          \* a
      [cp |-> 102,   status |-> "valid",      to |-> <<>>],          \* f
      [cp |-> 225,   status |-> "valid",      to |-> <<>>],          \* U+00E1 a-acute
      [cp |-> 7841,  status |-> "valid",      to |-> <<>>],          \* U+1EA1 a-dot-below
      [cp |-> 769,   status |-> "valid",      to |-> <<>>],          \* U+0301 acute
      [cp |-> 803,   status |-> "valid",      to |-> <<>>],          \* U+0323 dot below
      [cp |-> 65,    status |-> "mapped",     to |-> <<97>>],        \* A
      [cp |-> 65313, status |-> "mapped",     to |-> <<97>>],        \* U+FF21 fullwidth A
      [cp |-> 64256, status |-> "mapped",     to |-> <<102, 102>>],  \* U+FB00 ligature ff
      [cp |-> 173,   status |-> "ignored",    to |-> <<>>],          \* U+00AD soft hyphen
      [cp |-> 65533, status |-> "disallowed", to |-> <<>>]>>         \* U+FFFD

find_char(ch) == MappingTable[CHOOSE i \in 1..Len(MappingTable) : MappingTable[i].cp = ch]

\* U+FFFD REPLACEMENT CHARACTER, what the mapper answers for an error
ReplacementChar == CHOOSE ch \in {MappingTable[i].cp : i \in 1..Len(MappingTable)} :
                       find_char(ch).status = "disallowed"

\* unicode_normalization::char::decompose_canonical
decompose_canonical(ch) ==
    CASE ch = 225 -> <<97, 769>>
      [] ch = 7841 -> <<97, 803>>
      [] OTHER -> <<ch>>

\* unicode_normalization::char::compose
compose(a, b) ==
    CASE a = 97 /\ b = 769 -> 225
      [] a = 97 /\ b = 803 -> 7841
      [] OTHER -> None

\* the caller's iterator over the sequence s
Source(s) == [input |-> s, pos |-> 0, stages |-> <<>>]

\* idna_mapping::Mapper::new(iter, ignored_as_errors)
MapperNew(iter, flag) ==
    [iter EXCEPT !.stages =
        Append(@, [kind |-> "Mapper", slice |-> <<>>, ignored_as_errors |-> flag])]

NewDecompositions ==
    [kind |-> "Decompositions", buffer |-> <<>>, ready_start |-> 0, ready_end |-> 0]

NewRecompositions ==
    [kind |-> "Recompositions", state |-> "Composing", next |-> 0, buffer |-> <<>>,
     composee |-> None, last_ccc |-> None]

\* UnicodeNormalization::nfd
nfd(iter) == [iter EXCEPT !.stages = Append(@, NewDecompositions)]

\* UnicodeNormalization::nfc
nfc(iter) == [iter EXCEPT !.stages = @ \o <<NewDecompositions, NewRecompositions>>]

\* a stable sort of a sequence of <<class, char>> by class
RECURSIVE SortByClass(_)
SortByClass(b) ==
    IF Len(b) <= 1 THEN b
    ELSE LET init == SortByClass(SubSeq(b, 1, Len(b) - 1))
             x == b[Len(b)]
             keep == Cardinality({i \in 1..Len(init) : init[i][1] <= x[1]})
         IN SubSeq(init, 1, keep) \o <<x>> \o SubSeq(init, keep + 1, Len(init))

\* Decompositions::push_back of each character of a decomposition
RECURSIVE PushBack(_, _)
PushBack(st, chars) ==
    IF chars = <<>> THEN st
    ELSE LET ch == Head(chars)
             class == canonical_combining_class(ch)
             pushed ==
                 IF class = 0
                 THEN LET sorted == SubSeq(st.buffer, 1, st.ready_end)
                                     \o SortByClass(SubSeq(st.buffer, st.ready_end + 1,
                                                           Len(st.buffer)))
                      IN [st EXCEPT !.buffer = Append(sorted, <<class, ch>>),
                                    !.ready_end = Len(sorted) + 1]
                 ELSE [st EXCEPT !.buffer = Append(@, <<class, ch>>)]
         IN PushBack(pushed, Tail(chars))

WithStage(iter, k, st) == [iter EXCEPT !.stages[k] = st]

RECURSIVE Pull(_, _)
RECURSIVE PullMapper(_, _)
RECURSIVE PullDecompositions(_, _)
RECURSIVE PullRecompositions(_, _)

\* Mapper::next
PullMapper(iter, k) ==
    LET st == iter.stages[k] IN
    IF st.slice # <<>>
    THEN [iter |-> WithStage(iter, k, [st EXCEPT !.slice = Tail(@)]),
          item |-> Head(st.slice)]
    ELSE LET r == Pull(iter, k - 1) IN
         IF r.item = None THEN r
         ELSE LET m == find_char(r.item) IN
              CASE m.status = "valid" -> r
                [] m.status = "ignored" ->
                     IF st.ignored_as_errors
                     THEN [iter |-> r.iter, item |-> ReplacementChar]
                     ELSE PullMapper(r.iter, k)
                [] m.status = "mapped" ->
                     PullMapper(WithStage(r.iter, k, [st EXCEPT !.slice = m.to]), k)
                [] OTHER -> [iter |-> r.iter, item |-> ReplacementChar]

\* Decompositions::next
PullDecompositions(iter, k) ==
    LET st == iter.stages[k] IN
    IF st.ready_end = 0
    THEN LET r == Pull(iter, k - 1) IN
         IF r.item # None
         THEN PullDecompositions(
                  WithStage(r.iter, k, PushBack(st, decompose_canonical(r.item))), k)
         ELSE IF st.buffer = <<>> THEN r
         ELSE PullDecompositions(
                  WithStage(r.iter, k, [st EXCEPT !.buffer = SortByClass(@),
                                                  !.ready_end = Len(st.buffer)]), k)
    ELSE LET ch == st.buffer[st.ready_start + 1][2]
             after ==
                 IF st.ready_start + 1 = st.ready_end
                 THEN [st EXCEPT !.buffer = SubSeq(@, st.ready_end + 1, Len(@)),
                                 !.ready_start = 0, !.ready_end = 0]
                 ELSE [st EXCEPT !.ready_start = @ + 1]
         IN [iter |-> WithStage(iter, k, after), item |-> ch]

\* Recompositions::next
PullRecompositions(iter, k) ==
    LET st == iter.stages[k] IN
    CASE st.state = "Composing" ->
           LET r == Pull(iter, k - 1)
               ch == r.item
               class == canonical_combining_class(ch)
               set(s2) == WithStage(r.iter, k, s2)
           IN
           IF ch = None
           THEN LET fin == [st EXCEPT !.state = "Finished", !.next = 0] IN
                IF st.composee # None
                THEN [iter |-> set([fin EXCEPT !.composee = None]), item |-> st.composee]
                ELSE PullRecompositions(set(fin), k)
           ELSE IF st.composee = None
           THEN IF class # 0
                THEN [iter |-> r.iter, item |-> ch]
                ELSE PullRecompositions(set([st EXCEPT !.composee = ch]), k)
           ELSE IF st.last_ccc = None
           THEN IF compose(st.composee, ch) # None
                THEN PullRecompositions(
                         set([st EXCEPT !.composee = compose(st.composee, ch)]), k)
                ELSE IF class = 0
                THEN [iter |-> set([st EXCEPT !.composee = ch]), item |-> st.composee]
                ELSE PullRecompositions(
                         set([st EXCEPT !.buffer = Append(@, ch), !.last_ccc = class]), k)
           ELSE IF st.last_ccc >= class
           THEN IF class = 0
                THEN [iter |-> set([st EXCEPT !.composee = ch, !.last_ccc = None,
                                              !.state = "Purging", !.next = 0]),
                      item |-> st.composee]
                ELSE PullRecompositions(
                         set([st EXCEPT !.buffer = Append(@, ch), !.last_ccc = class]), k)
           ELSE IF compose(st.composee, ch) # None
                THEN PullRecompositions(
                         set([st EXCEPT !.composee = compose(st.composee, ch)]), k)
                ELSE PullRecompositions(
                         set([st EXCEPT !.buffer = Append(@, ch), !.last_ccc = class]), k)
      [] st.state = "Purging" ->
           IF st.next >= Len(st.buffer)
           THEN PullRecompositions(
                    WithStage(iter, k, [st EXCEPT !.buffer = <<>>, !.state = "Composing"]), k)
           ELSE [iter |-> WithStage(iter, k, [st EXCEPT !.next = @ + 1]),
                 item |-> st.buffer[st.next + 1]]
      [] OTHER ->
           IF st.next >= Len(st.buffer)
           THEN [iter |-> WithStage(iter, k, [st EXCEPT !.buffer = <<>>, !.composee = None]),
                 item |-> st.composee]
           ELSE [iter |-> WithStage(iter, k, [st EXCEPT !.next = @ + 1]),
                 item |-> st.buffer[st.next + 1]]

\* next() of adaptor k of the stack (0: the source)
Pull(iter, k) ==
    IF k = 0
    THEN IF iter.pos < Len(iter.input)
         THEN [iter |-> [iter EXCEPT !.pos = @ + 1], item |-> iter.input[iter.pos + 1]]
         ELSE [iter |-> iter, item |-> None]
    ELSE CASE iter.stages[k].kind = "Mapper" -> PullMapper(iter, k)
           [] iter.stages[k].kind = "Decompositions" -> PullDecompositions(iter, k)
           [] OTHER -> PullRecompositions(iter, k)

\* next() of the iterator a pipeline returned
IterNext(iter) == Pull(iter, Len(iter.stages))

\* everything the iterator yields until it ends
RECURSIVE Collect(_)
Collect(iter) ==
    LET r == IterNext(iter) IN
    IF r.item = None THEN <<>> ELSE <<r.item>> \o Collect(r.iter)

\* a mutant: the two stages in the wrong order
map_normalize_swapped(iter) == MapperNew(nfc(iter), FALSE)

\* a mutant: decomposed, not composed
map_normalize_nfd(iter) == nfd(MapperNew(iter, FALSE))

\* a mutant: the mapped sequence collected before it is normalized
map_normalize_eager(iter) ==
    nfc([input |-> iter.input, pos |-> Len(iter.input),
         stages |-> <<[kind |-> "Mapper", slice |-> Collect(MapperNew(iter, FALSE)),
                       ignored_as_errors |-> FALSE]>>])

\* Adapter::map_normalize
map_normalize(iter) == nfc(MapperNew(iter, FALSE))

\* Adapter::normalize_validate
normalize_validate(iter) == nfc(MapperNew(iter, TRUE))

(***************************************************************************)
(* The consumer of a pipeline.  A call returns a producer; the consumer    *)
(* pulls it one element at a time and keeps what it yields.                *)
(***************************************************************************)
\* the code points input sequences are made of
InputChars == {97, 65, 65313, 64256, 225, 769, 803, 173, 65533}

\* the code points of the inputs of two pipelines side by side
PairChars == {65, 769, 173}

RECURSIVE SeqsUpTo(_, _)
SeqsUpTo(S, n) ==
    IF n = 0 THEN {<<>>}
    ELSE LET shorter == SeqsUpTo(S, n - 1)
         IN shorter \cup {Append(t, x) : t \in {u \in shorter : Len(u) = n - 1}, x \in S}

\* adapter.map_normalize(s) or adapter.normalize_validate(s), not yet pulled
Call(api, s, pass, first) ==
    [api |-> api, first |-> first,
     iter |-> IF api = "map_normalize" THEN map_normalize(Source(s))
              ELSE normalize_validate(Source(s)),
     out |-> <<>>, pulls |-> 0, done |-> FALSE, pass |-> pass]

\* one next() of the consumer on a producer
Consume(p) ==
    LET r == IterNext(p.iter) IN
    [p EXCEPT !.iter = r.iter,
              !.pulls = @ + 1,
              !.out = IF r.item = None THEN @ ELSE Append(@, r.item),
              !.done = (r.item = None)]

MaskIdle ==
    /\ kind = "pipe" /\ c = 0
    /\ selfSet = {} /\ selfMask = 0
    /\ otherSet = {} /\ otherMask = 0 /\ otherName = ""
    /\ res = NoResult

MaskVars == <<kind, c, selfSet, selfMask, otherSet, otherMask, otherName, res>>

\* a mutant: the cursor kept in the Adapter, so that a pull of one producer
\* moves the cursor of every producer of the same Adapter
PullNextShared(i) ==
    /\ i \in 1..Len(prod) /\ ~prod[i].done
    /\ prod' = [j \in 1..Len(prod) |->
                  IF j = i THEN Consume(prod[j])
                  ELSE [prod[j] EXCEPT !.iter.pos =
                           IF @ < Len(prod[j].iter.input) THEN @ + 1 ELSE @]]
    /\ UNCHANGED MaskVars

\* the consumer pulls the next element of producer i
PullNext(i) ==
    /\ i \in 1..Len(prod) /\ ~prod[i].done
    /\ prod' = [prod EXCEPT ![i] = Consume(prod[i])]
    /\ UNCHANGED MaskVars

\* the consumer hands the finished output of map_normalize to map_normalize
FeedBack ==
    /\ Len(prod) = 1 /\ prod[1].done
    /\ prod[1].api = "map_normalize" /\ prod[1].pass = 1
    /\ prod' = <<Call("map_normalize", prod[1].out, 2, prod[1].first)>>
    /\ UNCHANGED MaskVars

InitPipe ==
    /\ MaskIdle
    /\ \E api \in {"map_normalize", "normalize_validate"} :
       \E s \in SeqsUpTo(InputChars, MaxLen) :
          prod = <<Call(api, s, 1, s)>>

NextPipe ==
    \/ PullNext(1)
    \/ FeedBack

SpecPipe == InitPipe /\ [][NextPipe]_vars

\* two calls on one Adapter, over two inputs
InitPair ==
    /\ MaskIdle
    /\ \E api1, api2 \in {"map_normalize", "normalize_validate"} :
       \E s1, s2 \in SeqsUpTo(PairChars, MaxPairLen) :
          prod = <<Call(api1, s1, 1, s1), Call(api2, s2, 1, s2)>>

NextPair == \E i \in {1, 2} : PullNext(i)

SpecPair == InitPair /\ [][NextPair]_vars

(***************************************************************************)
(* Properties of the pipelines.                                            *)
(***************************************************************************)
IsPrefix(s, t) == Len(s) <= Len(t) /\ SubSeq(t, 1, Len(s)) = s

\* what a call yields when it is run to its end, alone
RunAlone(api, s) ==
    Collect(IF api = "map_normalize" THEN map_normalize(Source(s))
            ELSE normalize_validate(Source(s)))

\* s is in composed canonical form: composing it leaves it as it is
IsComposed(s) == Collect(nfc(Source(s))) = s

\* the mapping stage (not validating) maps ch to itself
MappedToItself(ch) == Collect(MapperNew(Source(<<ch>>), FALSE)) = <<ch>>

\* the validating mode rejects s: its output carries the replacement marker
Rejected(s) == ReplacementChar \in Range(RunAlone("normalize_validate", s))

\* the first pass of a producer, run to its end
Finished(p) == p.done /\ p.pass = 1

\* C4: the output of map_normalize, handed to map_normalize again, comes
\* back as it is.
C4_MapNormalizeIdempotent ==
    \A i \in 1..Len(prod) :
        (prod[i].pass = 2 /\ prod[i].done) => prod[i].out = prod[i].iter.input

\* a second pass has ended on the output of a first pass that changed its
\* input by mapping, by deleting and by composing
C4_Witness ==
    /\ Len(prod) = 1 /\ prod[1].pass = 2 /\ prod[1].done
    /\ prod[1].first = <<65, 173, 769>> /\ prod[1].out = <<225>>

\* C5 as stated: an input in composed canonical form comes back from
\* map_normalize as it is.
C5_ComposedInputUnchanged ==
    \A i \in 1..Len(prod) :
        (Finished(prod[i]) /\ prod[i].api = "map_normalize"
            /\ IsComposed(prod[i].iter.input))
        => prod[i].out = prod[i].iter.input

\* C5 as amended: an input in composed canonical form, every character of
\* which the mapping stage maps to itself, comes back from map_normalize as
\* it is.
C5_ComposedMappedInputUnchanged ==
    \A i \in 1..Len(prod) :
        (Finished(prod[i]) /\ prod[i].api = "map_normalize"
            /\ IsComposed(prod[i].iter.input)
            /\ \A ch \in Range(prod[i].iter.input) : MappedToItself(ch))
        => prod[i].out = prod[i].iter.input

\* map_normalize has ended on a composed input of three characters that the
\* mapping stage maps to themselves, a precomposed letter among them
C5_Witness ==
    /\ Len(prod) = 1 /\ Finished(prod[1]) /\ prod[1].api = "map_normalize"
    /\ prod[1].iter.input = <<225, 769, 97>>
    /\ prod[1].out = <<225, 769, 97>>
    /\ IsComposed(prod[1].iter.input)
    /\ \A ch \in Range(prod[1].iter.input) : MappedToItself(ch)

\* the adaptors of an iterator, bottom up, and the mapper's flag
Shape(iter) ==
    [i \in 1..Len(iter.stages) |->
        IF iter.stages[i].kind = "Mapper"
        THEN <<"Mapper", iter.stages[i].ignored_as_errors>>
        ELSE <<iter.stages[i].kind>>]

\* C6: both operations are the mapper under canonical composition, the
\* flag of the mapper being FALSE for map_normalize and TRUE for
\* normalize_validate; and on an input the validating mode does not reject
\* the two yield the same sequence.
C6_ValidateAgreesWithMap ==
    \A i \in 1..Len(prod) :
        /\ Shape(prod[i].iter) =
              <<<<"Mapper", prod[i].api = "normalize_validate">>,
                <<"Decompositions">>, <<"Recompositions">>>>
        /\ (Finished(prod[i]) /\ ~Rejected(prod[i].iter.input)) =>
              /\ prod[i].out = RunAlone("map_normalize", prod[i].iter.input)
              /\ prod[i].out = RunAlone("normalize_validate", prod[i].iter.input)

\* normalize_validate has ended on an input it does not reject and that
\* both operations change (a mapped letter and a mark that composes)
C6_Witness ==
    /\ Len(prod) = 1 /\ Finished(prod[1]) /\ prod[1].api = "normalize_validate"
    /\ prod[1].iter.input = <<65, 769, 97>> /\ prod[1].out = <<225, 97>>
    /\ ~Rejected(prod[1].iter.input)

\* the input element ch makes the mapper yield a starter (a character of
\* combining class 0, or one whose decomposition begins with one)
YieldsStarter(ch, validating) ==
    LET m == find_char(ch) IN
    CASE m.status = "valid" -> canonical_combining_class(Head(decompose_canonical(ch))) = 0
      [] m.status = "mapped" ->
            \E j \in 1..Len(m.to) :
                canonical_combining_class(Head(decompose_canonical(m.to[j]))) = 0
      [] m.status = "ignored" -> validating
      [] OTHER -> TRUE

\* the position in s of the n-th element that yields a starter; the length
\* of s when there are fewer than n
NthStarter(s, validating, n) ==
    LET at == {j \in 1..Len(s) : YieldsStarter(s[j], validating)}
        upTo(j) == Cardinality({x \in at : x <= j})
        hit == {j \in at : upTo(j) = n}
    IN IF hit = {} THEN Len(s) ELSE CHOOSE j \in hit : TRUE

C8_ProducersIndependent ==
    \A i \in 1..Len(prod) :
        LET p == prod[i]
            alone == RunAlone(p.api, p.iter.input)
        IN /\ IsPrefix(p.out, alone)
           /\ p.done => p.out = alone

\* two producers of the two operations over different inputs, each pulled
\* once and neither ended, the second with an element still to yield
C8_Witness ==
    /\ Len(prod) = 2
    /\ prod[1].api = "map_normalize" /\ prod[2].api = "normalize_validate"
    /\ prod[1].iter.input = <<65, 769>> /\ prod[2].iter.input = <<173, 65>>
    /\ prod[1].pulls = 1 /\ prod[2].pulls = 1
    /\ prod[1].out = <<225>> /\ prod[2].out = <<ReplacementChar>>
    /\ ~prod[1].done /\ ~prod[2].done

====
